---------------------------- MODULE Spec2Model ----------------------------
(***************************************************************************)
(* A model of manimlib/camera/camera.py: the CameraFrame pose (Euler       *)
(* triple and the inverse rotation matrix derived from it) and the         *)
(* Camera's GPU-resource bookkeeping (render groups, the static index,     *)
(* the program cache, the texture cache, the perspective uniforms).        *)
(*                                                                         *)
(* Angles are measured in quarter turns: the integer a stands for the      *)
(* angle a * (pi/2), so that sines, cosines and every rotation matrix the  *)
(* model meets have entries in {-1, 0, 1} and the arithmetic is exact.     *)
(***************************************************************************)
EXTENDS Integers, Sequences, FiniteSets

\* ------------------------------------------------------------------ bounds

\* Largest |theta|, |gamma| the increment operations may reach.
MaxAngle == 3

\* The largest angle argument handed to the setters, in quarter turns.
MaxArg == 3

\* The context allocates at most MaxBuffers buffers and vertex arrays.
MaxBuffers == 9

\* capture and set_mobjects_as_static take at most MaxMobjects drawables.
MaxMobjects == 2

\* n_textures grows to at most MaxTextures.
MaxTextures == 3

\* Numerators and denominators of the frame's width and height stay within
\* MaxLength.
MaxLength == 512

\* ---------------------------------------------------------------- constants

\* pi, in quarter turns.
PI == 2

\* Python's None where an optional angle is absent; a supplied angle v is <<v>>.
None == <<>>

RADIANS == "RADIANS"
DEGREES == "DEGREES"

\* Axes a rotation is taken about (manimlib.constants OUT, RIGHT, UP).
OUT == <<0, 0, 1>>
RIGHT == <<1, 0, 0>>
UP == <<0, 1, 0>>

\* Lengths are fractions <<numerator, denominator>> in lowest terms.
RECURSIVE GCD(_, _)
GCD(a, b) == IF b = 0 THEN a ELSE GCD(b, a % b)

Frac(n, d) == <<n \div GCD(n, d), d \div GCD(n, d)>>

FracMul(x, y) == Frac(x[1] * y[1], x[2] * y[2])

FracDiv(x, y) == Frac(x[1] * y[2], x[2] * y[1])

\* manimlib.constants: the default frame is 8 high and 16 : 9 wide, the default
\* picture 1920 x 1080 pixels.
FRAME_HEIGHT == <<8, 1>>
FRAME_WIDTH == <<128, 9>>
DEFAULT_PIXEL_WIDTH == 1920
DEFAULT_PIXEL_HEIGHT == 1080

VARIABLES
    euler_angles,                     \* CameraFrame.data["euler_angles"]: <<theta, phi, gamma>>
    inverse_camera_rotation_matrix,   \* CameraFrame.inverse_camera_rotation_matrix
    frame_shape,                      \* <<width, height>> of the frame's points, as fractions
    pixel_shape,                      \* <<width, height>> of fbo.viewport, in pixels
    buffers,                          \* every GPU buffer and vertex array the context has allocated
    static_mobject_to_render_group_list,  \* Camera's dict id(mob) -> render groups, in insertion order
    id_to_shader_program,             \* Camera's dict program id -> (program, vert_format)
    compiled,                         \* the program ids ctx.program has compiled, in order
    perspective_uniforms,             \* Camera.perspective_uniforms
    n_textures,                       \* Camera.n_textures
    path_to_texture,                  \* Camera's dict path -> (tid, texture)
    texture_loads,                    \* the textures the context has created, in order
    released_textures,                \* the textures released so far
    fbo,                              \* what Camera.fbo holds: the draws resolved into it
    fbo_msaa,                         \* what Camera.fbo_msaa holds: the draws rendered into it
    trace,                            \* what the last call did to the context, in order
    lastCall                          \* the call that produced this state, with its arguments

frameVars == <<euler_angles, inverse_camera_rotation_matrix, frame_shape>>

renderVars == <<buffers, static_mobject_to_render_group_list, id_to_shader_program,
                compiled, perspective_uniforms>>

textureVars == <<n_textures, path_to_texture, texture_loads, released_textures>>

fboVars == <<fbo, fbo_msaa, pixel_shape>>

vars == <<frameVars, renderVars, textureVars, fboVars, trace, lastCall>>

\* ------------------------------------------------------- rotation algebra

\* value * units, in quarter turns: RADIANS is 1, DEGREES is pi / 180.
TimesUnits(value, units) ==
    IF units = RADIANS THEN value * 1 ELSE (value * PI) \div 180

\* clip(a, lo, hi) of manimlib.utils.simple_functions.
clip(a, min_a, max_a) ==
    IF a < min_a THEN min_a ELSE IF a > max_a THEN max_a ELSE a

Cos(a) ==
    LET r == a % (2 * PI)
    IN  IF r = 0 THEN 1 ELSE IF r = PI THEN -1 ELSE 0

Sin(a) ==
    LET r == a % (2 * PI)
    IN  IF 2 * r = PI THEN 1 ELSE IF 2 * r = 3 * PI THEN -1 ELSE 0

\* arccos on {-1, 0, 1}, in quarter turns.
ArcCos(c) ==
    IF c = 1 THEN 0 ELSE IF c = 0 THEN PI \div 2 ELSE PI

\* angle_of_vector: the angle of the plane vector <<x, y>>, in (-pi, pi];
\* numpy's angle of 0 + 0j is 0.
angle_of_vector(v) ==
    IF v[1] > 0 THEN 0
    ELSE IF v[1] < 0 THEN PI
    ELSE IF v[2] > 0 THEN PI \div 2
    ELSE IF v[2] < 0 THEN 0 - (PI \div 2)
    ELSE 0

MatMul(A, B) ==
    [i \in 1..3 |-> [j \in 1..3 |->
        A[i][1] * B[1][j] + A[i][2] * B[2][j] + A[i][3] * B[3][j]]]

Transpose(A) == [i \in 1..3 |-> [j \in 1..3 |-> A[j][i]]]

\* The transpose of the rotation by angle about a coordinate axis.
rotation_matrix_transpose(angle, axis) ==
    LET c == Cos(angle)
        s == Sin(angle)
    IN  IF axis = OUT THEN <<<<c, s, 0>>, <<0 - s, c, 0>>, <<0, 0, 1>>>>
        ELSE IF axis = RIGHT THEN <<<<1, 0, 0>>, <<0, c, s>>, <<0, 0 - s, c>>>>
        ELSE <<<<c, 0, 0 - s>>, <<0, 1, 0>>, <<s, 0, c>>>>

\* refresh_rotation_matrix: the quaternion product q(theta, OUT) q(phi, RIGHT)
\* q(gamma, OUT), turned into a rotation matrix and transposed.
RotationMatrixOf(angles) ==
    MatMul(
        MatMul(rotation_matrix_transpose(angles[3], OUT),
               rotation_matrix_transpose(angles[2], RIGHT)),
        rotation_matrix_transpose(angles[1], OUT))

\* ------------------------------------------------------------ CameraFrame

\* A set_euler_angles that tests its arguments for truth, so that a supplied
\* 0 counts as absent.
SetAnglesSkippingZero(angles, theta, phi, gamma, units) ==
    <<IF theta # None /\ theta # <<0>> THEN TimesUnits(theta[1], units) ELSE angles[1],
      IF phi # None /\ phi # <<0>> THEN TimesUnits(phi[1], units) ELSE angles[2],
      IF gamma # None /\ gamma # <<0>> THEN TimesUnits(gamma[1], units) ELSE angles[3]>>

\* The triple set_euler_angles stores: a supplied angle is value * units, an
\* absent one keeps its value.
SetAngles(angles, theta, phi, gamma, units) ==
    <<IF theta # None THEN TimesUnits(theta[1], units) ELSE angles[1],
      IF phi # None THEN TimesUnits(phi[1], units) ELSE angles[2],
      IF gamma # None THEN TimesUnits(gamma[1], units) ELSE angles[3]>>

\* The phi increment_phi stores.
IncrementedPhiNoClip(phi, dphi) == phi + dphi

\* An increment_phi that wraps around at the bounds instead of stopping there.
IncrementedPhiWrapping(phi, dphi) == (phi + dphi) % (PI + 1)

IncrementedPhi(phi, dphi) == clip(phi + dphi, 0, PI)

\* The triple rotate hands to set_euler_angles.
RotatedAngles(curr_rot_T, angle, axis) ==
    LET added_rot_T == rotation_matrix_transpose(angle, axis)
        new_rot_T == MatMul(curr_rot_T, added_rot_T)
        Fz == new_rot_T[3]
        phi == ArcCos(clip(Fz[3], -1, 1))
        theta == angle_of_vector(<<Fz[1], Fz[2]>>) + (PI \div 2)
        partial_rot_T == MatMul(rotation_matrix_transpose(phi, RIGHT),
                                rotation_matrix_transpose(theta, OUT))
        residual == MatMul(partial_rot_T, Transpose(new_rot_T))
        gamma == angle_of_vector(<<residual[1][1], residual[2][1]>>)
    IN  <<theta, phi, gamma>>

\* Arguments of the calls.
RadianArgs == {-1, 0, 1, MaxArg}
DegreeArgs == {90 * k : k \in RadianArgs}
OptRadianArgs == {<<v>> : v \in RadianArgs} \cup {None}
OptDegreeArgs == {<<v>> : v \in DegreeArgs} \cup {None}
Deltas == {-3, -1, 1, 3}
Axes == {OUT, RIGHT, UP}

InRange(a) == 0 - MaxAngle <= a /\ a <= MaxAngle

\* Mobject.set_width / set_height on the frame's points: with stretch the
\* other dimension stays, without it the points are scaled as a whole.
set_width(shape, width, stretch) ==
    IF stretch
    THEN <<width, shape[2]>>
    ELSE <<width, FracMul(shape[2], FracDiv(width, shape[1]))>>

set_height(shape, height, stretch) ==
    IF stretch
    THEN <<shape[1], height>>
    ELSE <<FracMul(shape[1], FracDiv(height, shape[2])), height>>

FrameInit ==
    /\ euler_angles = <<0, 0, 0>>
    /\ inverse_camera_rotation_matrix = RotationMatrixOf(<<0, 0, 0>>)

\* A CameraFrame call touches nothing of the Camera.
FrameOnly ==
    /\ trace' = <<>>
    /\ UNCHANGED <<renderVars, textureVars, fboVars>>

\* set_euler_angles, and the refresh that ends it.
StoreAngles(theta, phi, gamma, units) ==
    /\ euler_angles' = SetAngles(euler_angles, theta, phi, gamma, units)
    /\ inverse_camera_rotation_matrix' = RotationMatrixOf(euler_angles')
    /\ UNCHANGED frame_shape
    /\ FrameOnly

set_euler_angles ==
    \E theta \in OptRadianArgs, phi \in OptRadianArgs, gamma \in OptRadianArgs :
        /\ StoreAngles(theta, phi, gamma, RADIANS)
        /\ lastCall' = [op |-> "set_euler_angles", theta |-> theta, phi |-> phi,
                        gamma |-> gamma, units |-> RADIANS]

reorient ==
    \E theta \in OptDegreeArgs, phi \in OptDegreeArgs, gamma \in OptDegreeArgs :
        /\ StoreAngles(theta, phi, gamma, DEGREES)
        /\ lastCall' = [op |-> "reorient", theta |-> theta, phi |-> phi,
                        gamma |-> gamma, units |-> DEGREES]

set_theta ==
    \E theta \in RadianArgs :
        /\ StoreAngles(<<theta>>, None, None, RADIANS)
        /\ lastCall' = [op |-> "set_theta", theta |-> <<theta>>, phi |-> None,
                        gamma |-> None, units |-> RADIANS]

set_phi ==
    \E phi \in RadianArgs :
        /\ StoreAngles(None, <<phi>>, None, RADIANS)
        /\ lastCall' = [op |-> "set_phi", theta |-> None, phi |-> <<phi>>,
                        gamma |-> None, units |-> RADIANS]

set_gamma ==
    \E gamma \in RadianArgs :
        /\ StoreAngles(None, None, <<gamma>>, RADIANS)
        /\ lastCall' = [op |-> "set_gamma", theta |-> None, phi |-> None,
                        gamma |-> <<gamma>>, units |-> RADIANS]

increment_theta ==
    \E dtheta \in Deltas :
        /\ InRange(euler_angles[1] + dtheta)
        /\ euler_angles' = [euler_angles EXCEPT ![1] = @ + dtheta]
        /\ inverse_camera_rotation_matrix' = RotationMatrixOf(euler_angles')
        /\ UNCHANGED frame_shape
        /\ FrameOnly
        /\ lastCall' = [op |-> "increment_theta", delta |-> dtheta]

increment_phi ==
    \E dphi \in Deltas :
        /\ euler_angles' = [euler_angles EXCEPT ![2] = IncrementedPhi(@, dphi)]
        /\ inverse_camera_rotation_matrix' = RotationMatrixOf(euler_angles')
        /\ UNCHANGED frame_shape
        /\ FrameOnly
        /\ lastCall' = [op |-> "increment_phi", delta |-> dphi]

increment_gamma ==
    \E dgamma \in Deltas :
        /\ InRange(euler_angles[3] + dgamma)
        /\ euler_angles' = [euler_angles EXCEPT ![3] = @ + dgamma]
        /\ inverse_camera_rotation_matrix' = RotationMatrixOf(euler_angles')
        /\ UNCHANGED frame_shape
        /\ FrameOnly
        /\ lastCall' = [op |-> "increment_gamma", delta |-> dgamma]

rotate ==
    \E angle \in RadianArgs, axis \in Axes :
        LET new == RotatedAngles(inverse_camera_rotation_matrix, angle, axis)
        IN  /\ StoreAngles(<<new[1]>>, <<new[2]>>, <<new[3]>>, RADIANS)
            /\ lastCall' = [op |-> "rotate", angle |-> angle, axis |-> axis]

\* to_default_state: set_height and set_width without stretch, then
\* set_euler_angles(0, 0, 0).
to_default_state ==
    /\ frame_shape' = set_width(set_height(frame_shape, FRAME_HEIGHT, FALSE),
                                FRAME_WIDTH, FALSE)
    /\ euler_angles' = SetAngles(euler_angles, <<0>>, <<0>>, <<0>>, RADIANS)
    /\ inverse_camera_rotation_matrix' = RotationMatrixOf(euler_angles')
    /\ FrameOnly
    /\ lastCall' = [op |-> "to_default_state"]

\* Lengths the frame is stretched to.
Lengths == {<<8, 1>>, <<16, 1>>, <<128, 9>>}

\* frame.set_width(width, stretch=True), as init_points calls it.
FrameSetWidth ==
    \E width \in Lengths :
        /\ frame_shape' = set_width(frame_shape, width, TRUE)
        /\ UNCHANGED <<euler_angles, inverse_camera_rotation_matrix>>
        /\ FrameOnly
        /\ lastCall' = [op |-> "set_width", width |-> width, stretch |-> TRUE]

\* frame.set_height(height, stretch=True), as init_points calls it.
FrameSetHeight ==
    \E height \in Lengths :
        /\ frame_shape' = set_height(frame_shape, height, TRUE)
        /\ UNCHANGED <<euler_angles, inverse_camera_rotation_matrix>>
        /\ FrameOnly
        /\ lastCall' = [op |-> "set_height", height |-> height, stretch |-> TRUE]

\* Mobject.interpolate on the Euler triple: (1 - alpha) * a + alpha * b for each
\* angle, with alpha counted in halves.
InterpolatedAngles(angles1, angles2, halves) ==
    [i \in 1..3 |-> ((2 - halves) * angles1[i] + halves * angles2[i]) \div 2]

\* The Euler triples of the frames interpolate is called with.
Poses == {<<0, 0, 0>>, <<2, 1, 0>>, <<-2, 2, 2>>, <<1, MaxAngle, -1>>}

\* An interpolate that leaves the rotation matrix as it was.
interpolate_without_refresh ==
    \E mobject1 \in Poses, mobject2 \in Poses, halves \in 0..2 :
        /\ \A i \in 1..3 : ((2 - halves) * mobject1[i] + halves * mobject2[i]) % 2 = 0
        /\ euler_angles' = InterpolatedAngles(mobject1, mobject2, halves)
        /\ UNCHANGED inverse_camera_rotation_matrix
        /\ UNCHANGED frame_shape
        /\ FrameOnly
        /\ lastCall' = [op |-> "interpolate", mobject1 |-> mobject1,
                        mobject2 |-> mobject2, halves |-> halves]

\* interpolate(mobject1, mobject2, alpha): the inherited interpolation of the
\* data, then refresh_rotation_matrix.
interpolate ==
    \E mobject1 \in Poses, mobject2 \in Poses, halves \in 0..2 :
        /\ \A i \in 1..3 : ((2 - halves) * mobject1[i] + halves * mobject2[i]) % 2 = 0
        /\ euler_angles' = InterpolatedAngles(mobject1, mobject2, halves)
        /\ inverse_camera_rotation_matrix' = RotationMatrixOf(euler_angles')
        /\ UNCHANGED frame_shape
        /\ FrameOnly
        /\ lastCall' = [op |-> "interpolate", mobject1 |-> mobject1,
                        mobject2 |-> mobject2, halves |-> halves]

\* ------------------------------------------------------------ the drawables

\* The identities of the drawables handed to the camera, and the texture paths.
Mobs == {"m1", "m2"}
Paths == {"p1", "p2"}

\* Drawables whose shader units do not fit their program, or whose program does
\* not compile, and a texture path with no image behind it.
FaultyMobs == {"m3", "m4", "m5"}
UnloadablePaths == {"p0"}

\* Image.open succeeds on the paths that hold an image.
Loadable(path) == path \in Paths

\* ctx.program succeeds on every shader code but that of "broken".
Compiles(sid) == sid # "broken"

\* The uniform names a compiled program has (shader[name] raises KeyError for
\* any other name).
ProgramUniformNames(sid) ==
    IF sid = "surface"
    THEN {"gloss", "LightTexture", "camera_rotation", "light_source_position"}
    ELSE IF sid = "stroke"
    THEN {"gloss", "camera_rotation", "light_source_position"}
    ELSE {"gloss", "camera_rotation"}

\* Mobject.get_shader_wrapper_list: the shader units a drawable exposes.  Two
\* units of different drawables share the program id "stroke" and differ in
\* their uniforms; vert_indices is None ("none"), an empty array ("empty") or
\* holds indices ("data").  The unit of m3 supplies a uniform ("shadow") its
\* program "flat" lacks, that of m4 a texture name ("DarkTexture") its program
\* lacks, and the code of m5's unit does not compile.
get_shader_wrapper_list(mob) ==
    IF mob = "m1"
    THEN <<[mob |-> "m1", program_id |-> "surface", vert_indices |-> "data",
            uniforms |-> [gloss |-> 1],
            texture_paths |-> <<[name |-> "LightTexture", path |-> "p1"]>>,
            depth_test |-> TRUE],
           [mob |-> "m1", program_id |-> "stroke", vert_indices |-> "none",
            uniforms |-> [gloss |-> 2], texture_paths |-> <<>>,
            depth_test |-> FALSE]>>
    ELSE IF mob = "m3"
    THEN <<[mob |-> "m3", program_id |-> "flat", vert_indices |-> "none",
            uniforms |-> [gloss |-> 4, shadow |-> 1], texture_paths |-> <<>>,
            depth_test |-> FALSE]>>
    ELSE IF mob = "m4"
    THEN <<[mob |-> "m4", program_id |-> "surface", vert_indices |-> "none",
            uniforms |-> [gloss |-> 5],
            texture_paths |-> <<[name |-> "DarkTexture", path |-> "p2"]>>,
            depth_test |-> FALSE]>>
    ELSE IF mob = "m5"
    THEN <<[mob |-> "m5", program_id |-> "broken", vert_indices |-> "data",
            uniforms |-> [gloss |-> 6], texture_paths |-> <<>>,
            depth_test |-> FALSE]>>
    ELSE <<[mob |-> mob, program_id |-> "stroke", vert_indices |-> "empty",
            uniforms |-> [gloss |-> 3], texture_paths |-> <<>>,
            depth_test |-> FALSE]>>

\* The argument lists of capture and set_mobjects_as_static.
MobSeqs == UNION {[1..n -> Mobs] : n \in 0..MaxMobjects}

\* Argument lists with a faulty drawable among the drawables.
FaultyMobSeqs ==
    {mobjects \in UNION {[1..n -> FaultyMobs \cup {"m2"}] : n \in 1..MaxMobjects} :
        \E i \in DOMAIN mobjects : mobjects[i] \in FaultyMobs}

\* ------------------------------------------------------- Python dictionaries

\* A dict without an order that matters: a function on its keys.
Put(f, k, v) == [x \in (DOMAIN f) \cup {k} |-> IF x = k THEN v ELSE f[x]]

Pop(f, k) == [x \in (DOMAIN f) \ {k} |-> f[x]]

\* The items of a dict whose keys are among names.
Restrict(f, names) == [x \in (DOMAIN f) \cap names |-> f[x]]

\* A dict iterated in insertion order: a sequence of [key, value] entries.
DictKeys(d) == {d[i].key : i \in 1..Len(d)}

DictGet(d, k) == d[CHOOSE i \in 1..Len(d) : d[i].key = k].value

\* d[k] = v: a key already present keeps its place.
DictSet(d, k, v) ==
    IF k \in DictKeys(d)
    THEN [i \in 1..Len(d) |-> IF d[i].key = k THEN [key |-> k, value |-> v] ELSE d[i]]
    ELSE Append(d, [key |-> k, value |-> v])

\* ----------------------------------------------------------------- Camera

\* Camera.light_source_position of CONFIG.
light_source_position == <<-10, 10, 10>>

MatVec(A, v) == [i \in 1..3 |-> A[i][1] * v[1] + A[i][2] * v[2] + A[i][3] * v[3]]

Flatten(A) == A[1] \o A[2] \o A[3]

\* The bundle refresh_perspective_uniforms builds from the frame's rotation
\* (the frame's shape, centre and focal distance do not change where the
\* Camera draws).
UniformsOf(rotation) ==
    [camera_rotation |-> Flatten(Transpose(rotation)),
     light_source_position |-> MatVec(rotation, light_source_position)]

\* The Camera's state as one value, which the methods below take and return.
Cam ==
    [rotation |-> inverse_camera_rotation_matrix,
     buffers |-> buffers,
     index |-> static_mobject_to_render_group_list,
     programs |-> id_to_shader_program,
     compiled |-> compiled,
     perspective_uniforms |-> perspective_uniforms,
     n_textures |-> n_textures,
     path_to_texture |-> path_to_texture,
     texture_loads |-> texture_loads,
     released_textures |-> released_textures,
     fbo |-> fbo,
     fbo_msaa |-> fbo_msaa,
     raised |-> None,
     at |-> <<0, 0>>,
     trace |-> <<>>]

Install(s) ==
    /\ buffers' = s.buffers
    /\ static_mobject_to_render_group_list' = s.index
    /\ id_to_shader_program' = s.programs
    /\ compiled' = s.compiled
    /\ perspective_uniforms' = s.perspective_uniforms
    /\ n_textures' = s.n_textures
    /\ path_to_texture' = s.path_to_texture
    /\ texture_loads' = s.texture_loads
    /\ released_textures' = s.released_textures
    /\ fbo' = s.fbo
    /\ fbo_msaa' = s.fbo_msaa
    /\ UNCHANGED pixel_shape
    /\ trace' = s.trace

Emit(s, event) == [s EXCEPT !.trace = Append(@, event)]

\* An exception leaves the method; the callers below pass it on.  raised is
\* None or <<exception>>.
Raise(s, exception) == [s EXCEPT !.raised = <<exception>>]

Raised(s) == s.raised # None

refresh_perspective_uniforms(s) ==
    LET bundle == UniformsOf(s.rotation)
    IN  Emit([s EXCEPT !.perspective_uniforms = bundle],
             [ev |-> "refresh", uniforms |-> bundle])

\* A get_texture_id that hands out the lowest slot no cached texture holds.
get_texture_id_reusing_slots(s, path) ==
    IF path \in DOMAIN s.path_to_texture
    THEN [s |-> s, tid |-> s.path_to_texture[path][1]]
    ELSE LET tid == CHOOSE n \in 0..s.n_textures :
                        /\ \A p \in DOMAIN s.path_to_texture : s.path_to_texture[p][1] # n
                        /\ \A k \in 0..(n - 1) :
                              \E p \in DOMAIN s.path_to_texture : s.path_to_texture[p][1] = k
             texture == Len(s.texture_loads) + 1
             s1 == [s EXCEPT !.n_textures = @ + 1]
             s2 == Emit([s1 EXCEPT !.texture_loads =
                                       Append(@, [path |-> path, location |-> tid])],
                        [ev |-> "load", path |-> path, location |-> tid])
             s3 == [s2 EXCEPT !.path_to_texture = Put(@, path, <<tid, texture>>)]
         IN  [s |-> s3, tid |-> s3.path_to_texture[path][1]]

\* get_texture_id: the state afterwards and the slot id returned.  Image.open
\* raises for a path without an image, after the counter has moved.
get_texture_id(s, path) ==
    IF path \in DOMAIN s.path_to_texture
    THEN [s |-> s, tid |-> s.path_to_texture[path][1]]
    ELSE IF ~Loadable(path)
    THEN [s |-> Raise([s EXCEPT !.n_textures = @ + 1], "FileNotFoundError"),
          tid |-> None]
    ELSE LET tid == s.n_textures
             texture == Len(s.texture_loads) + 1
             s1 == [s EXCEPT !.n_textures = @ + 1]
             s2 == Emit([s1 EXCEPT !.texture_loads =
                                       Append(@, [path |-> path, location |-> tid])],
                        [ev |-> "load", path |-> path, location |-> tid])
             s3 == [s2 EXCEPT !.path_to_texture = Put(@, path, <<tid, texture>>)]
         IN  [s |-> s3, tid |-> s3.path_to_texture[path][1]]

\* A release_texture that hands the counter back with the texture.
release_texture_freeing_slot(s, path) ==
    IF path \in DOMAIN s.path_to_texture
    THEN LET tid_and_texture == s.path_to_texture[path]
         IN  Emit([s EXCEPT !.path_to_texture = Pop(@, path),
                            !.n_textures = @ - 1,
                            !.released_textures = @ \cup {tid_and_texture[2]}],
                  [ev |-> "release_texture", texture |-> tid_and_texture[2]])
    ELSE s

release_texture(s, path) ==
    IF path \in DOMAIN s.path_to_texture
    THEN LET tid_and_texture == s.path_to_texture[path]
         IN  Emit([s EXCEPT !.path_to_texture = Pop(@, path),
                            !.released_textures = @ \cup {tid_and_texture[2]}],
                  [ev |-> "release_texture", texture |-> tid_and_texture[2]])
    ELSE s

\* A get_shader_program that compiles at every request.
get_shader_program_always_compiling(s, shader_wrapper) ==
    LET sid == shader_wrapper.program_id
        program == Len(s.compiled) + 1
        s1 == Emit([s EXCEPT !.compiled = Append(@, sid),
                             !.programs = Put(@, sid, <<program, <<"format", sid>>>>)],
                   [ev |-> "compile", sid |-> sid])
    IN  [s |-> s1, pair |-> s1.programs[sid]]

\* get_shader_program: the state afterwards and the cached (program,
\* vert_format) pair.  A program is the number of its compilation; ctx.program
\* raises for a code that does not compile.
get_shader_program(s, shader_wrapper) ==
    LET sid == shader_wrapper.program_id
        s1 == IF sid \notin DOMAIN s.programs
              THEN LET program == Len(s.compiled) + 1
                       vert_format == <<"format", sid>>
                   IN  Emit([s EXCEPT !.compiled = Append(@, sid),
                                      !.programs = Put(@, sid, <<program, vert_format>>)],
                            [ev |-> "compile", sid |-> sid])
              ELSE s
    IN  IF sid \notin DOMAIN s.programs /\ ~Compiles(sid)
        THEN [s |-> Raise(Emit(s, [ev |-> "compile", sid |-> sid]), "moderngl.Error"),
              pair |-> None]
        ELSE [s |-> s1, pair |-> s1.programs[sid]]

\* ctx.buffer / ctx.vertex_array: a new object, the next handle.  The drawable,
\* the program id and the single_use flag of the group it is built for are
\* kept beside it for the properties' sake.
Alloc(s, kind, shader_wrapper, single_use) ==
    Emit([s EXCEPT !.buffers = Append(@, [kind |-> kind, releases |-> 0,
                                          mob |-> shader_wrapper.mob,
                                          program_id |-> shader_wrapper.program_id,
                                          single_use |-> single_use])],
         [ev |-> "alloc", id |-> Len(s.buffers) + 1])

\* get_render_group: the state afterwards and the group; ibo 0 is None.
get_render_group(s, shader_wrapper, single_use) ==
    LET s1 == Alloc(s, "vbo", shader_wrapper, single_use)
        vbo == Len(s1.buffers)
        s2 == IF shader_wrapper.vert_indices = "data"
              THEN Alloc(s1, "ibo", shader_wrapper, single_use)
              ELSE s1
        ibo == IF shader_wrapper.vert_indices = "data" THEN Len(s2.buffers) ELSE 0
        r == get_shader_program(s2, shader_wrapper)
        s3 == Alloc(r.s, "vao", shader_wrapper, single_use)
        vao == Len(s3.buffers)
    IN  IF Raised(r.s)
        THEN [s |-> r.s, group |-> None]
        ELSE [s |-> s3,
              group |-> [vbo |-> vbo, ibo |-> ibo, vao |-> vao, prog |-> r.pair[1],
                         shader_wrapper |-> shader_wrapper, single_use |-> single_use]]

\* One handle's release().
Release(s, id) ==
    IF id # 0
    THEN Emit([s EXCEPT !.buffers[id].releases = @ + 1], [ev |-> "release", id |-> id])
    ELSE s

release_render_group(s, render_group) ==
    Release(Release(Release(s, render_group.vbo), render_group.ibo), render_group.vao)

RECURSIVE BindTextures(_, _, _, _)
\* The first loop of set_shader_uniforms, from the k-th texture on: the state
\* afterwards and the <<name, tid>> pairs set.  shader[name] raises KeyError
\* for a name the program lacks, and nothing catches it here.
BindTextures(s, names, texture_paths, k) ==
    IF k > Len(texture_paths)
    THEN [s |-> s, set |-> <<>>]
    ELSE LET r == get_texture_id(s, texture_paths[k].path)
             rest == BindTextures(r.s, names, texture_paths, k + 1)
         IN  IF Raised(r.s)
             THEN [s |-> r.s, set |-> <<>>]
             ELSE IF texture_paths[k].name \notin names
             THEN [s |-> Raise(r.s, "KeyError"), set |-> <<>>]
             ELSE [s |-> rest.s,
                   set |-> <<<<texture_paths[k].name, r.tid>>>> \o rest.set]

\* A set_shader_uniforms that passes on the KeyError of a uniform the program
\* lacks.
set_shader_uniforms_without_except(s, shader, shader_wrapper) ==
    LET names == ProgramUniformNames(s.compiled[shader])
        r == BindTextures(s, names, shader_wrapper.texture_paths, 1)
    IN  IF Raised(r.s)
        THEN [s |-> r.s, bound |-> None]
        ELSE IF ~((DOMAIN shader_wrapper.uniforms) \subseteq names
                  /\ (DOMAIN r.s.perspective_uniforms) \subseteq names)
        THEN [s |-> Raise(r.s, "KeyError"), bound |-> None]
        ELSE [s |-> r.s,
              bound |-> [textures |-> r.set,
                         uniforms |-> shader_wrapper.uniforms,
                         perspective |-> r.s.perspective_uniforms]]

\* set_shader_uniforms: the state afterwards and what the program is left
\* bound with.  The second loop passes over the names the program lacks.
set_shader_uniforms(s, shader, shader_wrapper) ==
    LET names == ProgramUniformNames(s.compiled[shader])
        r == BindTextures(s, names, shader_wrapper.texture_paths, 1)
    IN  IF Raised(r.s)
        THEN [s |-> r.s, bound |-> None]
        ELSE [s |-> r.s,
              bound |-> [textures |-> r.set,
                         uniforms |-> Restrict(shader_wrapper.uniforms, names),
                         perspective |-> Restrict(r.s.perspective_uniforms, names)]]

Live(s, render_group) ==
    /\ s.buffers[render_group.vbo].releases = 0
    /\ render_group.ibo # 0 => s.buffers[render_group.ibo].releases = 0
    /\ s.buffers[render_group.vao].releases = 0

\* update_depth_test and vao.render: the draw goes into the framebuffer in
\* use, which is fbo_msaa since init_context.
Draw(s, render_group, bound, at) ==
    LET shader_wrapper == render_group.shader_wrapper
    IN  Emit([s EXCEPT !.fbo_msaa = @ \cup {<<shader_wrapper.mob, shader_wrapper.program_id>>}],
             [ev |-> "draw", group |-> render_group, bound |-> bound,
              depth_test |-> shader_wrapper.depth_test,
              live |-> Live(s, render_group), at |-> at])

\* A render that never releases a single-use group.
render_without_release(s, render_group) ==
    LET shader_wrapper == render_group.shader_wrapper
        r == set_shader_uniforms(s, render_group.prog, shader_wrapper)
    IN  IF Raised(r.s)
        THEN r.s
        ELSE Draw(r.s, render_group, r.bound, s.at)

\* A render that releases every group it has drawn.
render_releasing_every_group(s, render_group) ==
    LET shader_wrapper == render_group.shader_wrapper
        r == set_shader_uniforms(s, render_group.prog, shader_wrapper)
    IN  IF Raised(r.s)
        THEN r.s
        ELSE release_render_group(Draw(r.s, render_group, r.bound, s.at), render_group)

render(s, render_group) ==
    LET shader_wrapper == render_group.shader_wrapper
        r == set_shader_uniforms(s, render_group.prog, shader_wrapper)
        s1 == Draw(r.s, render_group, r.bound, s.at)
    IN  IF Raised(r.s)
        THEN r.s
        ELSE IF render_group.single_use THEN release_render_group(s1, render_group)
        ELSE s1

\* A get_render_group_list that never looks into the static index.
get_render_group_list_always_maps(s, mobject) ==
    [stored |-> FALSE, groups |-> <<>>, units |-> get_shader_wrapper_list(mobject)]

\* get_render_group_list: the stored groups of a static drawable, or else the
\* lazy map over the drawable's shader units.
get_render_group_list(s, mobject) ==
    IF mobject \in DictKeys(s.index)
    THEN [stored |-> TRUE, groups |-> DictGet(s.index, mobject), units |-> <<>>]
    ELSE [stored |-> FALSE, groups |-> <<>>, units |-> get_shader_wrapper_list(mobject)]

RECURSIVE RenderStored(_, _, _, _)
RenderStored(s, groups, pos, k) ==
    IF Raised(s) \/ k > Len(groups)
    THEN s
    ELSE RenderStored(render([s EXCEPT !.at = <<pos, k>>], groups[k]), groups, pos, k + 1)

RECURSIVE RenderMapped(_, _, _, _)
\* The lazy map: each group is built when the loop reaches it, then rendered.
RenderMapped(s, units, pos, k) ==
    IF Raised(s) \/ k > Len(units)
    THEN s
    ELSE LET r == get_render_group(s, units[k], TRUE)
         IN  IF Raised(r.s)
             THEN r.s
             ELSE RenderMapped(render([r.s EXCEPT !.at = <<pos, k>>], r.group),
                               units, pos, k + 1)

RECURSIVE CaptureFrom(_, _, _)
CaptureFrom(s, mobjects, pos) ==
    IF Raised(s) \/ pos > Len(mobjects)
    THEN s
    ELSE LET list == get_render_group_list(s, mobjects[pos])
             s1 == IF list.stored
                   THEN RenderStored(s, list.groups, pos, 1)
                   ELSE RenderMapped(s, list.units, pos, 1)
         IN  CaptureFrom(s1, mobjects, pos + 1)

\* A capture that draws with the uniforms left by the last refresh.
capture_without_refresh(s, mobjects) == CaptureFrom(s, mobjects, 1)

\* A capture that walks its drawables from the last to the first.
capture_in_reverse(s, mobjects) ==
    CaptureFrom(refresh_perspective_uniforms(s),
                [i \in 1..Len(mobjects) |-> mobjects[Len(mobjects) + 1 - i]], 1)

capture(s, mobjects) == CaptureFrom(refresh_perspective_uniforms(s), mobjects, 1)

RECURSIVE BuildStatic(_, _, _)
\* The list comprehension of set_mobjects_as_static, from the k-th unit on.
BuildStatic(s, units, k) ==
    IF k > Len(units)
    THEN [s |-> s, groups |-> <<>>]
    ELSE LET r == get_render_group(s, units[k], FALSE)
             rest == BuildStatic(r.s, units, k + 1)
         IN  IF Raised(r.s)
             THEN [s |-> r.s, groups |-> <<>>]
             ELSE [s |-> rest.s, groups |-> <<r.group>> \o rest.groups]

RECURSIVE set_mobjects_as_static(_, _)
set_mobjects_as_static(s, mobjects) ==
    IF mobjects = <<>>
    THEN s
    ELSE LET mob == Head(mobjects)
             r == BuildStatic(s, get_shader_wrapper_list(mob), 1)
         IN  IF Raised(r.s)
             THEN r.s
             ELSE set_mobjects_as_static(
                      [r.s EXCEPT !.index = DictSet(@, mob, r.groups)], Tail(mobjects))

RECURSIVE ReleaseGroups(_, _)
ReleaseGroups(s, rg_list) ==
    IF rg_list = <<>>
    THEN s
    ELSE ReleaseGroups(release_render_group(s, Head(rg_list)), Tail(rg_list))

RECURSIVE ReleaseLists(_, _)
ReleaseLists(s, entries) ==
    IF entries = <<>>
    THEN s
    ELSE ReleaseLists(ReleaseGroups(s, Head(entries).value), Tail(entries))

\* A release_static_mobjects that forgets to empty the index.
release_static_mobjects_keeps_index(s) == ReleaseLists(s, s.index)

release_static_mobjects(s) == [ReleaseLists(s, s.index) EXCEPT !.index = <<>>]

\* resize_frame_shape: the frame's shape afterwards.  set_height and set_width
\* are called without stretch.
resize_frame_shape(shape, pixels, fixed_dimension) ==
    LET aspect_ratio == Frac(pixels[1], pixels[2])
        frame_height == IF fixed_dimension = 0
                        THEN FracDiv(shape[1], aspect_ratio)
                        ELSE shape[2]
        frame_width == IF fixed_dimension = 0
                       THEN shape[1]
                       ELSE FracMul(aspect_ratio, shape[2])
    IN  set_width(set_height(shape, frame_height, FALSE), frame_width, FALSE)

\* clear: both framebuffers are filled with the background.
clear(s) ==
    Emit([s EXCEPT !.fbo = {}, !.fbo_msaa = {}], [ev |-> "clear"])

\* A get_raw_fbo_data that reads the primary framebuffer as it finds it.
get_raw_fbo_data_without_blit(s, dtype) ==
    [s |-> Emit(s, [ev |-> "read", framebuffer |-> "fbo", data |-> s.fbo]),
     raw |-> [dtype |-> dtype, data |-> s.fbo]]

\* get_raw_fbo_data: glBlitFramebuffer copies fbo_msaa into fbo, then fbo.read
\* returns the bytes of fbo in the dtype asked for.
get_raw_fbo_data(s, dtype) ==
    LET s1 == Emit([s EXCEPT !.fbo = s.fbo_msaa],
                   [ev |-> "blit", from |-> "fbo_msaa", to |-> "fbo", data |-> s.fbo_msaa])
    IN  [s |-> Emit(s1, [ev |-> "read", framebuffer |-> "fbo", data |-> s1.fbo]),
         raw |-> [dtype |-> dtype, data |-> s1.fbo]]

\* get_image: the bytes of get_raw_fbo_data() as an RGBA image.
get_image(s) ==
    LET r == get_raw_fbo_data(s, "f1")
    IN  [s |-> r.s, returned |-> [mode |-> "RGBA", raw |-> r.raw]]

\* get_pixel_array: the float bytes scaled to pixel_array_dtype.
get_pixel_array(s) ==
    LET r == get_raw_fbo_data(s, "f4")
    IN  [s |-> r.s, returned |-> [pixel_array_dtype |-> "uint8", raw |-> r.raw]]

\* get_texture: a texture of dtype f4 made of the bytes of get_raw_fbo_data().
get_texture(s) ==
    LET r == get_raw_fbo_data(s, "f1")
    IN  [s |-> r.s, returned |-> [texture_dtype |-> "f4", raw |-> r.raw]]

\* Camera.__init__: init_shaders, init_textures, the first
\* refresh_perspective_uniforms, the empty static index.
CameraInit ==
    /\ buffers = <<>>
    /\ static_mobject_to_render_group_list = <<>>
    /\ id_to_shader_program = [sid \in {""} |-> None]
    /\ compiled = <<>>
    /\ perspective_uniforms = UniformsOf(RotationMatrixOf(<<0, 0, 0>>))
    /\ n_textures = 0
    /\ path_to_texture = <<>>
    /\ texture_loads = <<>>
    /\ released_textures = {}
    /\ fbo = {}
    /\ fbo_msaa = {}
    /\ trace = <<>>

Init ==
    /\ FrameInit
    /\ CameraInit
    /\ frame_shape = <<FRAME_WIDTH, FRAME_HEIGHT>>
    /\ pixel_shape = <<DEFAULT_PIXEL_WIDTH, DEFAULT_PIXEL_HEIGHT>>
    /\ lastCall = [op |-> "init"]

\* The shapes a Camera is constructed with: frame_config's frame_shape, and
\* pixel_width and pixel_height.
FrameShapes == {<<FRAME_WIDTH, FRAME_HEIGHT>>, <<<<8, 1>>, <<8, 1>>>>, <<<<8, 1>>, <<16, 1>>>>}
PixelShapes == {<<DEFAULT_PIXEL_WIDTH, DEFAULT_PIXEL_HEIGHT>>, <<1000, 1000>>, <<1080, 1920>>}

InitShapes ==
    /\ FrameInit
    /\ CameraInit
    /\ frame_shape \in FrameShapes
    /\ pixel_shape \in PixelShapes
    /\ lastCall = [op |-> "init"]

\* What the bounds allow a call to leave behind.
WithinBounds(s) ==
    /\ Len(s.buffers) <= MaxBuffers
    /\ s.n_textures <= MaxTextures

Capture ==
    \E mobjects \in MobSeqs :
        \E s \in {capture(Cam, mobjects)} :
            /\ WithinBounds(s)
            /\ Install(s)
            /\ lastCall' = [op |-> "capture", mobjects |-> mobjects,
                            raised |-> s.raised]
            /\ UNCHANGED frameVars

SetMobjectsAsStatic ==
    \E mobjects \in MobSeqs :
        \E s \in {set_mobjects_as_static(Cam, mobjects)} :
            /\ WithinBounds(s)
            /\ Install(s)
            /\ lastCall' = [op |-> "set_mobjects_as_static", mobjects |-> mobjects,
                            raised |-> s.raised]
            /\ UNCHANGED frameVars

\* capture with a faulty drawable among its arguments.
CaptureFaulty ==
    \E mobjects \in FaultyMobSeqs :
        \E s \in {capture(Cam, mobjects)} :
            /\ WithinBounds(s)
            /\ Install(s)
            /\ lastCall' = [op |-> "capture", mobjects |-> mobjects,
                            raised |-> s.raised]
            /\ UNCHANGED frameVars

\* set_mobjects_as_static with a faulty drawable among its arguments.
SetMobjectsAsStaticFaulty ==
    \E mobjects \in FaultyMobSeqs :
        \E s \in {set_mobjects_as_static(Cam, mobjects)} :
            /\ WithinBounds(s)
            /\ Install(s)
            /\ lastCall' = [op |-> "set_mobjects_as_static", mobjects |-> mobjects,
                            raised |-> s.raised]
            /\ UNCHANGED frameVars

ReleaseStaticMobjects ==
    \E s \in {release_static_mobjects(Cam)} :
        /\ Install(s)
        /\ lastCall' = [op |-> "release_static_mobjects"]
        /\ UNCHANGED frameVars

GetTextureId ==
    \E path \in Paths :
        \E r \in {get_texture_id(Cam, path)} :
            /\ WithinBounds(r.s)
            /\ Install(r.s)
            /\ lastCall' = [op |-> "get_texture_id", path |-> path, returned |-> r.tid,
                            raised |-> r.s.raised]
            /\ UNCHANGED frameVars

\* get_texture_id of a path with no image behind it.
GetTextureIdUnloadable ==
    \E path \in UnloadablePaths :
        \E r \in {get_texture_id(Cam, path)} :
            /\ WithinBounds(r.s)
            /\ Install(r.s)
            /\ lastCall' = [op |-> "get_texture_id", path |-> path, returned |-> r.tid,
                            raised |-> r.s.raised]
            /\ UNCHANGED frameVars

ReleaseTexture ==
    \E path \in Paths :
        \E s \in {release_texture(Cam, path)} :
            /\ Install(s)
            /\ lastCall' = [op |-> "release_texture", path |-> path]
            /\ UNCHANGED frameVars

\* The frame shapes the bounds allow.
ShapeWithinBounds(shape) ==
    \A i \in 1..2, j \in 1..2 : shape[i][j] <= MaxLength

ResizeFrameShape ==
    \E fixed_dimension \in {0, 1} :
        /\ frame_shape' = resize_frame_shape(frame_shape, pixel_shape, fixed_dimension)
        /\ ShapeWithinBounds(frame_shape')
        /\ UNCHANGED <<euler_angles, inverse_camera_rotation_matrix>>
        /\ FrameOnly
        /\ lastCall' = [op |-> "resize_frame_shape", fixed_dimension |-> fixed_dimension,
                        before |-> frame_shape]

Clear ==
    \E s \in {clear(Cam)} :
        /\ Install(s)
        /\ lastCall' = [op |-> "clear"]
        /\ UNCHANGED frameVars

GetRawFboData ==
    \E dtype \in {"f1", "f4"} :
        \E r \in {get_raw_fbo_data(Cam, dtype)} :
            /\ Install(r.s)
            /\ lastCall' = [op |-> "get_raw_fbo_data", returned |-> r.raw]
            /\ UNCHANGED frameVars

GetImage ==
    \E r \in {get_image(Cam)} :
        /\ Install(r.s)
        /\ lastCall' = [op |-> "get_image", returned |-> r.returned.raw]
        /\ UNCHANGED frameVars

GetPixelArray ==
    \E r \in {get_pixel_array(Cam)} :
        /\ Install(r.s)
        /\ lastCall' = [op |-> "get_pixel_array", returned |-> r.returned.raw]
        /\ UNCHANGED frameVars

GetTexture ==
    \E r \in {get_texture(Cam)} :
        /\ Install(r.s)
        /\ lastCall' = [op |-> "get_texture", returned |-> r.returned.raw]
        /\ UNCHANGED frameVars

\* --------------------------------------------------------- specifications

\* The Camera's rendering calls, with the frame's phi moving between them.
Next ==
    \/ Capture
    \/ SetMobjectsAsStatic
    \/ ReleaseStaticMobjects
    \/ ReleaseTexture
    \/ increment_phi

Spec == Init /\ [][Next]_vars

\* The CameraFrame's calls.
NextFrame ==
    \/ set_euler_angles
    \/ reorient
    \/ set_theta
    \/ set_phi
    \/ set_gamma
    \/ increment_theta
    \/ increment_phi
    \/ increment_gamma
    \/ rotate
    \/ to_default_state

SpecFrame == Init /\ [][NextFrame]_vars

\* The CameraFrame's calls, the inherited interpolate among them.
NextPose ==
    \/ NextFrame
    \/ interpolate

SpecPose == Init /\ [][NextPose]_vars

\* The frame's shape: stretched by hand and fitted to the picture.
NextResize ==
    \/ ResizeFrameShape
    \/ FrameSetWidth
    \/ FrameSetHeight

SpecResize == InitShapes /\ [][NextResize]_vars

\* Drawing, clearing and reading the pixels back.
NextReadback ==
    \/ Capture
    \/ Clear
    \/ GetRawFboData
    \/ GetImage
    \/ GetPixelArray
    \/ GetTexture

SpecReadback == Init /\ [][NextReadback]_vars

\* The rendering calls, with drawables that do not fit their programs.
NextFaulty ==
    \/ CaptureFaulty
    \/ SetMobjectsAsStaticFaulty
    \/ ReleaseStaticMobjects

SpecFaulty == Init /\ [][NextFaulty]_vars

\* The texture cache's calls, with a path that cannot be loaded.
NextTextureFaulty ==
    \/ GetTextureId
    \/ GetTextureIdUnloadable
    \/ ReleaseTexture

SpecTextureFaulty == Init /\ [][NextTextureFaulty]_vars

\* The texture cache's calls.
NextTexture ==
    \/ GetTextureId
    \/ ReleaseTexture

SpecTexture == Init /\ [][NextTexture]_vars

\* ------------------------------------------------------------- properties

IsDraw(e) == e.ev = "draw"
IsRefresh(e) == e.ev = "refresh"

\* The draw calls of the last call, in order.
Draws == SelectSeq(trace, IsDraw)

Handles == 1..Len(buffers)

GroupBuffers(g) == {g.vbo, g.vao} \cup (IF g.ibo # 0 THEN {g.ibo} ELSE {})

StaticKeys == DictKeys(static_mobject_to_render_group_list)

StoredGroups(m) == DictGet(static_mobject_to_render_group_list, m)

StoredBuffers(m) ==
    UNION {GroupBuffers(StoredGroups(m)[k]) : k \in 1..Len(StoredGroups(m))}

\* The unreleased buffers of the persistent groups ever built for drawable m.
PersistentAlive(m) ==
    {b \in Handles : /\ buffers[b].mob = m
                     /\ ~buffers[b].single_use
                     /\ buffers[b].releases = 0}

NoStaticReleaseYet ==
    \A b \in Handles : ~buffers[b].single_use => buffers[b].releases = 0

\* C1 (as claimed): while only set_mobjects_as_static has touched the static
\* index, a drawable it holds has exactly one entry there, and the unreleased
\* persistent buffers ever built for that drawable are exactly those of the
\* stored list: an earlier promotion's groups are not left alive.
C1_PromotionReplacesWithoutLeak ==
    NoStaticReleaseYet =>
        \A m \in StaticKeys :
            /\ Cardinality({i \in 1..Len(static_mobject_to_render_group_list) :
                               static_mobject_to_render_group_list[i].key = m}) = 1
            /\ PersistentAlive(m) = StoredBuffers(m)

\* C2 (as claimed): when release_static_mobjects returns, the static index is
\* empty and every buffer of every persistent group ever built is released.
C2_ReleaseLeavesNoPersistentBuffer ==
    lastCall.op = "release_static_mobjects" =>
        /\ static_mobject_to_render_group_list = <<>>
        /\ \A b \in Handles : ~buffers[b].single_use => buffers[b].releases >= 1

\* C3: no draw call is issued on a group one of whose buffers is released;
\* a drawable captured after release_static_mobjects is drawn from groups
\* built in that capture.
C3_NoDrawAfterRelease ==
    \A i \in 1..Len(trace) : IsDraw(trace[i]) => trace[i].live

\* C3's case: a capture draws a drawable some of whose persistent buffers
\* release_static_mobjects has released.
C3_Witness ==
    /\ lastCall.op = "capture"
    /\ \E i \in 1..Len(Draws) : \E b \in Handles :
          /\ buffers[b].mob = Draws[i].group.shader_wrapper.mob
          /\ ~buffers[b].single_use
          /\ buffers[b].releases >= 1
          /\ Draws[i].group.single_use

\* The draw calls the last call issued for the pos-th drawable of its
\* argument list, in order.
DrawsAt(pos) == SelectSeq(Draws, LAMBDA e : e.at[1] = pos)

AllocatedInTrace(b) ==
    \E i \in 1..Len(trace) : trace[i].ev = "alloc" /\ trace[i].id = b

ReleasedInTrace(b) ==
    \E i \in 1..Len(trace) : trace[i].ev = "release" /\ trace[i].id = b

\* C4: no single-use buffer is alive between two calls; and a capture, for
\* each drawable of its list that the static index does not hold, draws one
\* single-use group per shader unit, in the units' order, each built in this
\* capture (an index buffer only for a unit that has indices), each drawn
\* once, and each released in this capture.
C4_EphemeralBuiltDrawnReleased ==
    /\ \A b \in Handles : buffers[b].single_use => buffers[b].releases >= 1
    /\ lastCall.op = "capture" =>
        /\ \A pos \in 1..Len(lastCall.mobjects) :
              lastCall.mobjects[pos] \notin StaticKeys =>
                  LET units == get_shader_wrapper_list(lastCall.mobjects[pos])
                      here == DrawsAt(pos)
                  IN  /\ Len(here) = Len(units)
                      /\ \A k \in 1..Len(here) :
                            /\ here[k].group.single_use
                            /\ here[k].group.shader_wrapper = units[k]
                            /\ (here[k].group.ibo # 0) <=> (units[k].vert_indices = "data")
                            /\ \A b \in GroupBuffers(here[k].group) :
                                  AllocatedInTrace(b) /\ ReleasedInTrace(b)
        /\ \A i, j \in 1..Len(Draws) :
              (i # j /\ Draws[i].group.single_use) =>
                  GroupBuffers(Draws[i].group) \cap GroupBuffers(Draws[j].group) = {}

\* C4's case: a capture of the two-unit drawable while it is not static.
C4_Witness ==
    /\ lastCall.op = "capture"
    /\ "m1" \notin StaticKeys
    /\ \E pos \in 1..Len(lastCall.mobjects) : lastCall.mobjects[pos] = "m1"
    /\ \E i \in 1..Len(Draws) : Draws[i].group.ibo # 0 /\ Draws[i].group.single_use

\* C5: the groups the static index holds are persistent and none of their
\* buffers is released; a capture draws, for a drawable the index holds,
\* exactly the stored groups and builds nothing for it; and a persistent
\* buffer is released by release_static_mobjects alone.
C5_PersistentGroupsRetained ==
    /\ \A m \in StaticKeys : \A k \in 1..Len(StoredGroups(m)) :
          /\ ~StoredGroups(m)[k].single_use
          /\ \A b \in GroupBuffers(StoredGroups(m)[k]) :
                buffers[b].releases = 0 /\ ~buffers[b].single_use
    /\ lastCall.op = "capture" =>
          /\ \A pos \in 1..Len(lastCall.mobjects) :
                lastCall.mobjects[pos] \in StaticKeys =>
                    LET stored == StoredGroups(lastCall.mobjects[pos])
                        here == DrawsAt(pos)
                    IN  /\ Len(here) = Len(stored)
                        /\ \A k \in 1..Len(here) : here[k].group = stored[k]
          /\ \A b \in Handles : AllocatedInTrace(b) => buffers[b].mob \notin StaticKeys
    /\ \A b \in Handles :
          (ReleasedInTrace(b) /\ ~buffers[b].single_use) =>
              lastCall.op = "release_static_mobjects"

\* C5's case: one capture draws a static drawable twice.
C5_Witness ==
    /\ lastCall.op = "capture"
    /\ Len(lastCall.mobjects) = 2
    /\ lastCall.mobjects[1] = lastCall.mobjects[2]
    /\ lastCall.mobjects[1] \in StaticKeys
    /\ Len(Draws) >= 2

\* C6: a request for a cached path returns the cached slot id and loads
\* nothing; a request for a path that is not cached (never requested, or
\* released since) loads the image once and returns a slot id the path never
\* held before; and a cached entry stays as it is until release_texture is
\* called on its path.
C6_SameSlotUntilReleasedThenNewSlot ==
    [][/\ lastCall'.op = "get_texture_id" =>
            IF lastCall'.path \in DOMAIN path_to_texture
            THEN /\ lastCall'.returned = path_to_texture[lastCall'.path][1]
                 /\ texture_loads' = texture_loads
            ELSE /\ texture_loads' = Append(texture_loads,
                        [path |-> lastCall'.path, location |-> lastCall'.returned])
                 /\ path_to_texture'[lastCall'.path][1] = lastCall'.returned
                 /\ \A i \in 1..Len(texture_loads) :
                       texture_loads[i].path = lastCall'.path =>
                           texture_loads[i].location # lastCall'.returned
       /\ \A path \in DOMAIN path_to_texture :
            \/ lastCall'.op = "release_texture" /\ lastCall'.path = path
            \/ /\ path \in DOMAIN path_to_texture'
               /\ path_to_texture'[path] = path_to_texture[path]
      ]_vars

\* C6's case: a path is requested again after its texture was released, and
\* the request loads it a second time.
C6_Witness ==
    /\ lastCall.op = "get_texture_id"
    /\ trace # <<>>
    /\ \E i \in 1..(Len(texture_loads) - 1) :
          /\ texture_loads[i].path = lastCall.path
          /\ i \in released_textures

\* The program ids get_render_group was ever asked for.
RequestedSids == {buffers[b].program_id : b \in Handles}

\* C7: no program id is compiled twice; the cache holds, for exactly the ids
\* requested so far, the pair compiled for that id (so there are as many
\* compilations as distinct ids requested); and every group, whatever its
\* unit's uniforms, carries the cached program of its unit's id.
C7_OneCompilationPerSignature ==
    /\ \A i, j \in 1..Len(compiled) : i # j => compiled[i] # compiled[j]
    /\ DOMAIN id_to_shader_program = RequestedSids \cup {""}
    /\ Len(compiled) = Cardinality(RequestedSids)
    /\ \A sid \in RequestedSids :
          /\ id_to_shader_program[sid][1] \in 1..Len(compiled)
          /\ compiled[id_to_shader_program[sid][1]] = sid
          /\ id_to_shader_program[sid][2] = <<"format", sid>>
    /\ \A m \in StaticKeys : \A k \in 1..Len(StoredGroups(m)) :
          StoredGroups(m)[k].prog =
              id_to_shader_program[StoredGroups(m)[k].shader_wrapper.program_id][1]
    /\ \A i \in 1..Len(Draws) :
          Draws[i].group.prog =
              id_to_shader_program[Draws[i].group.shader_wrapper.program_id][1]

\* C7's case: one call draws two units of the same program id and different
\* uniforms, that id having been compiled in this very call.
C7_Witness ==
    /\ \E i, j \in 1..Len(Draws) :
          /\ Draws[i].group.shader_wrapper.uniforms # Draws[j].group.shader_wrapper.uniforms
          /\ Draws[i].group.shader_wrapper.program_id = Draws[j].group.shader_wrapper.program_id
          /\ Draws[i].group.prog = Draws[j].group.prog
    /\ \E i \in 1..Len(trace) : trace[i].ev = "compile" /\ trace[i].sid = "stroke"

\* C8: a capture recomputes the perspective uniforms once, as the first thing
\* it does, from the frame as it is; and every draw call of that capture is
\* bound with that bundle.
C8_UniformsOncePerCapture ==
    lastCall.op = "capture" =>
        /\ Len(trace) >= 1
        /\ IsRefresh(trace[1])
        /\ \A i \in 2..Len(trace) : ~IsRefresh(trace[i])
        /\ trace[1].uniforms = UniformsOf(inverse_camera_rotation_matrix)
        /\ perspective_uniforms = trace[1].uniforms
        /\ \A i \in 1..Len(Draws) : Draws[i].bound.perspective = trace[1].uniforms

\* C8's case: a capture that draws several groups after the frame has turned.
C8_Witness ==
    /\ lastCall.op = "capture"
    /\ Len(Draws) >= 3
    /\ perspective_uniforms # UniformsOf(RotationMatrixOf(<<0, 0, 0>>))

\* What a capture is to draw for one drawable: its stored groups, or one
\* single-use group per shader unit.
ExpectedFor(m) ==
    IF m \in StaticKeys
    THEN [k \in 1..Len(StoredGroups(m)) |-> [stored |-> TRUE, group |-> StoredGroups(m)[k]]]
    ELSE [k \in 1..Len(get_shader_wrapper_list(m)) |->
             [stored |-> FALSE, unit |-> get_shader_wrapper_list(m)[k]]]

RECURSIVE ExpectedDraws(_)
ExpectedDraws(mobjects) ==
    IF mobjects = <<>>
    THEN <<>>
    ELSE ExpectedFor(Head(mobjects)) \o ExpectedDraws(Tail(mobjects))

\* C9: the draw calls of a capture are, in order, those of its first
\* drawable, then those of its second, and so on; within a drawable, the
\* stored groups in list order, or the shader units in their order.
C9_DrawsInSuppliedOrder ==
    lastCall.op = "capture" =>
        LET expected == ExpectedDraws(lastCall.mobjects)
        IN  /\ Len(Draws) = Len(expected)
            /\ \A i \in 1..Len(Draws) :
                  IF expected[i].stored
                  THEN Draws[i].group = expected[i].group
                  ELSE /\ Draws[i].group.single_use
                       /\ Draws[i].group.shader_wrapper = expected[i].unit

\* C9's case: a capture of a static two-group drawable and then another one.
C9_Witness ==
    /\ lastCall.op = "capture"
    /\ lastCall.mobjects = <<"m1", "m2">>
    /\ "m1" \in StaticKeys
    /\ "m2" \notin StaticKeys
    /\ Len(Draws) = 3

\* C10 (as claimed): the stored phi lies in [0, pi] in every reachable state.
C10_PhiAlwaysInRange == 0 <= euler_angles[2] /\ euler_angles[2] <= PI

PhiInRange == euler_angles[2] \in 0..PI

\* The call stores a phi outside [0, pi]: a setter given such a phi.
SuppliesPhiOutOfRange(call) ==
    /\ call.op \in {"set_euler_angles", "reorient", "set_phi"}
    /\ call.phi # None
    /\ TimesUnits(call.phi[1], call.units) \notin 0..PI

\* C10 (amended): phi lies in [0, pi] at creation and after every
\* increment_phi, rotate and to_default_state, whatever it was before; and no
\* call takes phi out of [0, pi] except set_euler_angles, reorient or set_phi
\* given a phi outside [0, pi], which they store unclamped.
C10_PhiInRangeUnlessSetOutside ==
    /\ [](lastCall.op \in {"init", "increment_phi", "rotate", "to_default_state"}
             => PhiInRange)
    /\ [][(PhiInRange /\ ~SuppliesPhiOutOfRange(lastCall')) => PhiInRange']_vars

\* C10's case: increment_phi has clamped a phi that a setter had left above pi.
C10_Witness ==
    /\ lastCall.op = "increment_phi"
    /\ lastCall.delta = -1
    /\ euler_angles[2] = PI

\* ---- C11
Min(a, b) == IF a <= b THEN a ELSE b
Max(a, b) == IF a >= b THEN a ELSE b

\* C11: increment_phi(d) leaves phi at min(max(phi + d, 0), PI) and theta and
\* gamma as they were; at a bound, a further increment in the same direction
\* leaves phi at that bound.
C11_IncrementPhiSaturates ==
    [][lastCall'.op = "increment_phi" =>
          /\ euler_angles'[2] = Min(Max(euler_angles[2] + lastCall'.delta, 0), PI)
          /\ euler_angles'[1] = euler_angles[1]
          /\ euler_angles'[3] = euler_angles[3]
          /\ (euler_angles[2] = PI /\ lastCall'.delta > 0) => euler_angles'[2] = PI
          /\ (euler_angles[2] = 0 /\ lastCall'.delta < 0) => euler_angles'[2] = 0]_vars

\* An increment past PI has left phi at PI, with theta and gamma away from 0.
C11_Witness ==
    /\ lastCall.op = "increment_phi"
    /\ lastCall.delta = 3
    /\ euler_angles[2] = PI
    /\ euler_angles[1] = 1
    /\ euler_angles[3] = -1

\* ---- C12
AngleSetters == {"set_euler_angles", "reorient", "set_theta", "set_phi", "set_gamma"}

\* What a setter called with the optional value arg leaves of an angle.
StoredAfter(before, arg, units) ==
    IF arg = None THEN before
    ELSE IF units = DEGREES THEN (arg[1] * PI) \div 180
    ELSE arg[1]

\* C12: set_euler_angles, reorient, set_theta, set_phi and set_gamma change
\* only the angles they are given: an absent angle keeps its value, a supplied
\* one is stored as value times unit, a supplied 0 included.
C12_SettersChangeOnlySuppliedAngles ==
    [][lastCall'.op \in AngleSetters =>
          /\ euler_angles'[1] = StoredAfter(euler_angles[1], lastCall'.theta, lastCall'.units)
          /\ euler_angles'[2] = StoredAfter(euler_angles[2], lastCall'.phi, lastCall'.units)
          /\ euler_angles'[3] = StoredAfter(euler_angles[3], lastCall'.gamma, lastCall'.units)]_vars

\* reorient was given phi = 0 and gamma = 90 degrees and no theta: phi is 0,
\* gamma a quarter turn, and theta still holds its earlier non-zero value.
C12_Witness ==
    /\ lastCall.op = "reorient"
    /\ lastCall.theta = None
    /\ lastCall.phi = <<0>>
    /\ lastCall.gamma = <<90>>
    /\ euler_angles = <<MaxArg, 0, 1>>

\* ---- C13
Identity == <<<<1, 0, 0>>, <<0, 1, 0>>, <<0, 0, 1>>>>

\* C13: at creation and after every CameraFrame call that changes the Euler
\* triple, interpolate included, the stored inverse rotation matrix is the one
\* derived from the stored triple.
C13_RotationMatrixFresh ==
    inverse_camera_rotation_matrix = RotationMatrixOf(euler_angles)

\* interpolate has stopped half way between two poses, at a triple whose
\* matrix is not the one the frame was created with.
C13_Witness ==
    /\ lastCall.op = "interpolate"
    /\ lastCall.halves = 1
    /\ lastCall.mobject1 # lastCall.mobject2
    /\ euler_angles = <<-1, 1, 1>>
    /\ inverse_camera_rotation_matrix # Identity

\* ---- C14
Readbacks == {"get_raw_fbo_data", "get_image", "get_pixel_array", "get_texture"}

\* C14: every pixel readback copies the multisample framebuffer into the
\* primary one before it reads the primary one, so the bytes returned hold
\* every draw made since the last clear; nothing reads the primary
\* framebuffer without that copy before it.
C14_ReadbackResolvesFirst ==
    /\ \A i \in DOMAIN trace :
          trace[i].ev = "read" =>
              /\ trace[i].framebuffer = "fbo"
              /\ \E j \in 1..(i - 1) : trace[j].ev = "blit" /\ trace[j].data = fbo_msaa
    /\ lastCall.op \in Readbacks =>
          /\ \E i \in DOMAIN trace : trace[i].ev = "read"
          /\ lastCall.returned.data = fbo_msaa

\* get_pixel_array has returned float bytes that hold the draws of both
\* drawables, after one blit and one read.
C14_Witness ==
    /\ lastCall.op = "get_pixel_array"
    /\ lastCall.returned.dtype = "f4"
    /\ lastCall.returned.data = {<<"m1", "surface">>, <<"m1", "stroke">>, <<"m2", "stroke">>}
    /\ Len(trace) = 2
    /\ trace[1].ev = "blit"

\* ---- C15
RenderingCalls == {"capture", "set_mobjects_as_static"}

\* The names a shader unit supplies, in its uniforms and in its texture paths.
SuppliedNames(shader_wrapper) ==
    (DOMAIN shader_wrapper.uniforms)
        \cup {shader_wrapper.texture_paths[k].name : k \in DOMAIN shader_wrapper.texture_paths}

\* The units a capture of mobjects walks through, in order.
RECURSIVE UnitsOf(_)
UnitsOf(mobjects) ==
    IF mobjects = <<>>
    THEN <<>>
    ELSE get_shader_wrapper_list(Head(mobjects)) \o UnitsOf(Tail(mobjects))

\* C15: a uniform name a shader unit supplies, as a uniform or as a texture
\* path, that the compiled program lacks is passed over in silence: render
\* raises no KeyError, sets nothing for that name, binds the other uniforms
\* and still issues the draw.
C15_MissingUniformNamesSkipped ==
    lastCall.op = "capture" =>
        /\ lastCall.raised # <<"KeyError">>
        /\ \A k \in DOMAIN UnitsOf(lastCall.mobjects) :
              LET unit == UnitsOf(lastCall.mobjects)[k]
                  names == ProgramUniformNames(unit.program_id)
              IN  (Compiles(unit.program_id) /\ ~(SuppliedNames(unit) \subseteq names)) =>
                      \E i \in DOMAIN Draws :
                          /\ Draws[i].group.shader_wrapper = unit
                          /\ Draws[i].bound.uniforms = Restrict(unit.uniforms, names)

\* The KeyError comes from a texture name alone: a missing name among the
\* unit's uniforms or the perspective uniforms is passed over and the unit is
\* drawn.
MissingPlainUniformsSkipped ==
    lastCall.op = "capture" =>
        /\ lastCall.raised = <<"KeyError">> => \E i \in DOMAIN lastCall.mobjects : lastCall.mobjects[i] = "m4"
        /\ (lastCall.raised = None /\ \E i \in DOMAIN lastCall.mobjects : lastCall.mobjects[i] = "m3") =>
              \E i \in DOMAIN Draws :
                  /\ Draws[i].group.shader_wrapper.mob = "m3"
                  /\ DOMAIN Draws[i].bound.uniforms = {"gloss"}
                  /\ DOMAIN Draws[i].bound.perspective = {"camera_rotation"}

\* ---- C16
\* C16: resize_frame_shape(fixed_dimension) leaves the fixed dimension (the
\* width for 0, the height otherwise) as it was and sets the other one so
\* that frame width : frame height is pixel width : pixel height.
C16_ResizeMatchesPixelAspect ==
    lastCall.op = "resize_frame_shape" =>
        /\ lastCall.fixed_dimension = 0 => frame_shape[1] = lastCall.before[1]
        /\ lastCall.fixed_dimension # 0 => frame_shape[2] = lastCall.before[2]
        /\ FracDiv(frame_shape[1], frame_shape[2]) = Frac(pixel_shape[1], pixel_shape[2])

\* What resize_frame_shape does instead: both rescalings scale the frame as a
\* whole, so the frame keeps the aspect ratio it had, and its width ends as
\* the width computed (the old one for fixed_dimension = 0).
ResizeKeepsFrameAspect ==
    lastCall.op = "resize_frame_shape" =>
        /\ FracDiv(frame_shape[1], frame_shape[2])
               = FracDiv(lastCall.before[1], lastCall.before[2])
        /\ lastCall.fixed_dimension = 0 => frame_shape = lastCall.before

\* ---- C17
\* C17: a get_texture_id whose image cannot be loaded passes the failure on
\* and leaves the texture cache as it was: the path gets no entry and the
\* counter does not move, so every slot id below the counter has gone to a
\* texture that was loaded (no slot id is skipped).
C17_FailedLoadLeavesCacheUntouched ==
    /\ (lastCall.op = "get_texture_id" /\ ~Loadable(lastCall.path)) =>
          /\ lastCall.raised # None
          /\ lastCall.path \notin DOMAIN path_to_texture
    /\ \A tid \in 0..(n_textures - 1) :
          \E i \in DOMAIN texture_loads : texture_loads[i].location = tid

\* What does hold of a failed load: it is passed on and nothing is cached.
FailedLoadCachesNothing ==
    (lastCall.op = "get_texture_id" /\ ~Loadable(lastCall.path)) =>
        /\ lastCall.raised = <<"FileNotFoundError">>
        /\ lastCall.path \notin DOMAIN path_to_texture
        /\ trace = <<>>

\* ---- C18
CompileError == <<"moderngl.Error">>

\* The compilations the last call asked the context for.
CompilationsInTrace(sid) ==
    {i \in DOMAIN trace : trace[i].ev = "compile" /\ trace[i].sid = sid}

\* The drawables whose shader code does not compile.
Uncompilable ==
    {m \in Mobs \cup FaultyMobs :
        \E k \in DOMAIN get_shader_wrapper_list(m) :
            ~Compiles(get_shader_wrapper_list(m)[k].program_id)}

\* What does hold of a failed compilation: it is passed on after one attempt,
\* and neither the program cache nor the static index gains an entry.
FailedCompilationCachesNothing ==
    (lastCall.op \in RenderingCalls /\ lastCall.raised = CompileError) =>
        /\ \A sid \in DOMAIN id_to_shader_program : Compiles(sid)
        /\ \E i \in DOMAIN trace :
              /\ trace[i].ev = "compile"
              /\ ~Compiles(trace[i].sid)
              /\ CompilationsInTrace(trace[i].sid) = {i}
        /\ StaticKeys \cap Uncompilable = {}

\* C18: a compilation that fails inside get_render_group is passed on to the
\* caller of capture or set_mobjects_as_static after one attempt; the program
\* cache gains no entry for the failing code, the static index none for the
\* drawable, and no buffer allocated for the failed group stays unreleased.
C18_FailedCompilationLeavesNothing ==
    (lastCall.op \in RenderingCalls /\ lastCall.raised = CompileError) =>
        /\ FailedCompilationCachesNothing
        /\ \A b \in Handles :
              (AllocatedInTrace(b) /\ ~Compiles(buffers[b].program_id)) =>
                  buffers[b].releases > 0

\* ---- C19
\* Two cached paths never share a slot, every cached slot lies below the
\* counter, and no slot has gone to two textures.
TextureSlotsDistinct ==
    /\ \A p \in DOMAIN path_to_texture, q \in DOMAIN path_to_texture :
          p # q => path_to_texture[p][1] # path_to_texture[q][1]
    /\ \A p \in DOMAIN path_to_texture : path_to_texture[p][1] < n_textures
    /\ \A i \in DOMAIN texture_loads, j \in DOMAIN texture_loads :
          i # j => texture_loads[i].location # texture_loads[j].location

\* C19: in every state reached by get_texture_id and release_texture, distinct
\* cached paths have distinct slot ids, every cached slot id is below the
\* counter, and the counter never decreases, so a slot freed by
\* release_texture is never handed out again.
C19_TextureSlotsNeverReused ==
    /\ []TextureSlotsDistinct
    /\ [][n_textures' >= n_textures]_vars

\* p1 was released and requested again: it now holds slot 2, beside p2 in
\* slot 1, and slot 0 is gone for good.
C19_Witness ==
    /\ lastCall.op = "get_texture_id"
    /\ lastCall.path = "p1"
    /\ lastCall.returned = 2
    /\ DOMAIN path_to_texture = {"p1", "p2"}
    /\ path_to_texture["p2"][1] = 1
    /\ released_textures # {}

\* ---- C20
\* The handles the last call released, one entry per release.
ReleasesInTrace == SelectSeq(trace, LAMBDA e : e.ev = "release")

\* C20: over capture, set_mobjects_as_static and release_static_mobjects, no
\* vbo, ibo or vao is released twice and an ibo of None is never released; a
\* release_static_mobjects that finds the index empty, as one that follows
\* another does, releases nothing.
C20_NoDoubleRelease ==
    /\ [](/\ \A b \in Handles : buffers[b].releases <= 1
          /\ \A i \in DOMAIN ReleasesInTrace :
                /\ ReleasesInTrace[i].id \in Handles
                /\ \A j \in DOMAIN ReleasesInTrace :
                      i # j => ReleasesInTrace[i].id # ReleasesInTrace[j].id)
    /\ [][(lastCall'.op = "release_static_mobjects"
              /\ static_mobject_to_render_group_list = <<>>) =>
              (buffers' = buffers /\ trace' = <<>>)]_vars
    /\ [][lastCall'.op = "release_static_mobjects" =>
              static_mobject_to_render_group_list' = <<>>]_vars

\* A second release_static_mobjects in a row has found nothing to release:
\* the persistent buffers of m1, the ibo among them, are released once each.
C20_Witness ==
    /\ lastCall.op = "release_static_mobjects"
    /\ trace = <<>>
    /\ \E b \in Handles :
          /\ buffers[b].kind = "ibo"
          /\ ~buffers[b].single_use
          /\ buffers[b].releases = 1
    /\ \E b \in Handles :
          /\ buffers[b].mob = "m1"
          /\ buffers[b].program_id = "stroke"
          /\ ~buffers[b].single_use
    /\ \A b \in Handles : ~buffers[b].single_use => buffers[b].releases = 1

=============================================================================
